---- MODULE Spec2Model ----
(***************************************************************************)
(* Rewards ledger of the MSTS safety-reporting application.                *)
(*                                                                         *)
(* The ledger is the table monthly_employee_points, one row per            *)
(* (employee_id, year, month).  It is maintained by database triggers on   *)
(* safety_reports and report_resolvers, all of which go through the        *)
(* function upsert_monthly_points, and it is seeded by a backfill block.   *)
(*                                                                         *)
(* Time is counted in whole months (a timestamp t stands for month         *)
(* t % 12 + 1 of year t \div 12), which is all that EXTRACT(YEAR ...) and  *)
(* EXTRACT(MONTH ...) look at.                                             *)
(***************************************************************************)
EXTENDS Integers, Sequences, FiniteSets, TLC

(* ---------------- bounds of the model ---------------- *)
NumReports == 2    \* reports ever created
MaxDelta == 1      \* largest point delta of a direct call
MaxCalls == 2      \* direct calls in a row
MaxSteps == 1      \* updates outside the five ledger events, backfill runs
NumProcs == 2      \* concurrent sessions
MaxRuns == 2       \* times the admin saves the status dialog
MaxOpen == 1       \* reports of the admin dialog and of the live sessions beside the backfill
MaxUpdates == 3    \* updates of the author or of the resolved_by_id column
MaxLive == 2       \* live statements beside the backfill
MaxPending == 1    \* reports saved while offline
MaxSyncs == 2      \* calls of syncPendingReports

(* first value of the clock: December 2026, so that the next month is in
   another year *)
FirstNow == 2026 * 12 + 11

\* SQL NULL for uuid and integer columns (ids start at 1, years and months are positive)
NULL == 0

\* two employees (a resolver is the author or somebody else), two months on
\* the two sides of a year's end, and three point values (differences of both
\* signs, and the 2 of the reference scenario)
Employees == 1..2
ReportIds == 1..NumReports
Times == FirstNow..(FirstNow + 1)
Points == 0..2
DeltaValues == (0 - MaxDelta)..MaxDelta
\* the count deltas the triggers pass: one row more, none, one row less
CountDeltas == {-1, 0, 1}

VARIABLES
  now,        \* the database clock now(), in months
  nextId,     \* number of report ids handed out so far (ids are fresh)
  reports,    \* safety_reports: id -> row
  resolvers,  \* report_resolvers: <<report_id, resolver_id>> -> points_awarded
  ledger,     \* monthly_employee_points: <<employee_id, year, month>> -> row
  steps,      \* number of direct calls executed (bounds the exploration)
  rpc,        \* the last direct call of upsert_monthly_points and what it found
  procs,      \* concurrent sessions, each running a stream of calls on one key
  profiles,   \* profiles.points: employee id -> lifetime points
  board,      \* the leaderboard as last loaded by the employee client
  backfill,   \* the session that runs the backfill block
  live,       \* a session that runs one statement on safety_reports
  seen,       \* what a reader of the ledger last got
  pending,    \* localStorage pending_safety_reports of the employee client
  syncs,      \* the runs of syncPendingReports
  content     \* safety_reports: id -> the report the row was written from

uiVars == <<profiles, board>>
rebuildVars == <<backfill, live, seen>>

syncVars == <<pending, syncs, content>>

vars == <<now, nextId, reports, resolvers, ledger, steps, rpc, procs, uiVars, rebuildVars,
          syncVars>>

(* ---------------- pure helpers ---------------- *)
EmptyFcn == [x \in {} |-> 0]

ExtractYear(t) == IF t = NULL THEN NULL ELSE t \div 12
ExtractMonth(t) == IF t = NULL THEN NULL ELSE (t % 12) + 1

Remove(f, S) == [x \in (DOMAIN f) \ S |-> f[x]]

GREATEST(a, b) == IF a >= b THEN a ELSE b

\* variant: the total copies the reporter points only
GeneratedTotal_ReporterOnly(rp, sp) == rp

\* a row of monthly_employee_points; total_points is the generated column
GeneratedTotal(rp, sp) == rp + sp

LedgerRow(rp, sp, rc, sc) ==
  [reporter_points |-> rp, resolver_points |-> sp,
   total_points |-> GeneratedTotal(rp, sp),
   report_count |-> rc, resolved_count |-> sc]

\* variant: the two results are exchanged
calculate_resolver_points_Swapped(p_resolver_id, p_report_creator_id) ==
  IF p_resolver_id = p_report_creator_id THEN 2 ELSE 1

\* CASE WHEN p_resolver_id = p_report_creator_id THEN 1 ELSE 2 END
calculate_resolver_points(p_resolver_id, p_report_creator_id) ==
  IF p_resolver_id = p_report_creator_id THEN 1 ELSE 2

\* a row of safety_reports
ReportRow(e, t, p, res, st) ==
  [employee_id |-> e, created_at |-> t, points_awarded |-> p,
   resolved_by_id |-> res, status |-> st]

Statuses == {"pending", "closed"}

(* ---------------- upsert_monthly_points ---------------- *)
\* variants: no floor of zero on the first touch, no floor on later ones
InsertValue_NoFloor(delta) == delta
ConflictValue_NoFloor(cur, delta) == cur + delta

\* the values written by the INSERT branch and by the ON CONFLICT branch
InsertValue(delta) == GREATEST(0, delta)
ConflictValue(cur, delta) == GREATEST(0, cur + delta)

\* the arbiter of ON CONFLICT (employee_id, year, month)
ConflictKey(e, y, m) == <<e, y, m>>

\* variant: the conflict target is the employee alone, so that the update
\* reaches every row of the employee
upsert_monthly_points_AllRows(L, e, y, m, d1, d2, d3, d4) ==
  IF e = NULL \/ y = NULL \/ m = NULL \/ m < 1 \/ m > 12
  THEN [ok |-> FALSE, ledger |-> L]
  ELSE LET k == ConflictKey(e, y, m) IN
       [ok |-> TRUE,
        ledger |->
          IF \E kk \in DOMAIN L : kk[1] = e
          THEN [kk \in DOMAIN L |->
                  IF kk[1] = e
                  THEN LedgerRow(ConflictValue(L[kk].reporter_points, d1),
                                 ConflictValue(L[kk].resolver_points, d2),
                                 ConflictValue(L[kk].report_count, d3),
                                 ConflictValue(L[kk].resolved_count, d4))
                  ELSE L[kk]]
          ELSE L @@ (k :> LedgerRow(InsertValue(d1), InsertValue(d2),
                                    InsertValue(d3), InsertValue(d4)))]

\* variant: employee_id has no NOT NULL, a call without an employee writes
\* the entry of "nobody"
upsert_monthly_points_NullEmployee(L, e, y, m, d1, d2, d3, d4) ==
  IF y = NULL \/ m = NULL \/ m < 1 \/ m > 12
  THEN [ok |-> FALSE, ledger |-> L]
  ELSE LET k == ConflictKey(e, y, m) IN
       [ok |-> TRUE,
        ledger |->
          IF k \in DOMAIN L
          THEN [L EXCEPT ![k] =
                  LedgerRow(ConflictValue(L[k].reporter_points, d1),
                            ConflictValue(L[k].resolver_points, d2),
                            ConflictValue(L[k].report_count, d3),
                            ConflictValue(L[k].resolved_count, d4))]
          ELSE L @@ (k :> LedgerRow(InsertValue(d1), InsertValue(d2),
                                    InsertValue(d3), InsertValue(d4)))]

\* variant: a row whose four counters are back at zero is deleted
upsert_monthly_points_DropsZero(L, e, y, m, d1, d2, d3, d4) ==
  IF e = NULL \/ y = NULL \/ m = NULL \/ m < 1 \/ m > 12
  THEN [ok |-> FALSE, ledger |-> L]
  ELSE LET k == ConflictKey(e, y, m)
           row == IF k \in DOMAIN L
                  THEN LedgerRow(ConflictValue(L[k].reporter_points, d1),
                                 ConflictValue(L[k].resolver_points, d2),
                                 ConflictValue(L[k].report_count, d3),
                                 ConflictValue(L[k].resolved_count, d4))
                  ELSE LedgerRow(InsertValue(d1), InsertValue(d2),
                                 InsertValue(d3), InsertValue(d4))
           all == (k :> row) @@ L
       IN [ok |-> TRUE,
           ledger |-> IF row = LedgerRow(0, 0, 0, 0) THEN Remove(all, {k}) ELSE all]

\* variant: the counters carry CHECK (... >= 0) and the values are written
\* without GREATEST, so that a delta below zero raises
upsert_monthly_points_Checked(L, e, y, m, d1, d2, d3, d4) ==
  LET k == ConflictKey(e, y, m)
      c == IF k \in DOMAIN L
           THEN <<L[k].reporter_points, L[k].resolver_points,
                  L[k].report_count, L[k].resolved_count>>
           ELSE <<0, 0, 0, 0>>
  IN IF e = NULL \/ y = NULL \/ m = NULL \/ m < 1 \/ m > 12
        \/ c[1] + d1 < 0 \/ c[2] + d2 < 0 \/ c[3] + d3 < 0 \/ c[4] + d4 < 0
     THEN [ok |-> FALSE, ledger |-> L]
     ELSE [ok |-> TRUE,
           ledger |-> IF k \in DOMAIN L
                      THEN [L EXCEPT ![k] = LedgerRow(c[1] + d1, c[2] + d2, c[3] + d3, c[4] + d4)]
                      ELSE L @@ (k :> LedgerRow(d1, d2, d3, d4))]

\* result of one call: ok = FALSE when the statement raises
\* (NOT NULL on employee_id, year and month; CHECK on month)
upsert_monthly_points(L, e, y, m, d1, d2, d3, d4) ==
  IF e = NULL \/ y = NULL \/ m = NULL \/ m < 1 \/ m > 12
  THEN [ok |-> FALSE, ledger |-> L]
  ELSE LET k == ConflictKey(e, y, m) IN
       [ok |-> TRUE,
        ledger |->
          IF k \in DOMAIN L
          THEN [L EXCEPT ![k] =
                  LedgerRow(ConflictValue(L[k].reporter_points, d1),
                            ConflictValue(L[k].resolver_points, d2),
                            ConflictValue(L[k].report_count, d3),
                            ConflictValue(L[k].resolved_count, d4))]
          ELSE L @@ (k :> LedgerRow(InsertValue(d1), InsertValue(d2),
                                    InsertValue(d3), InsertValue(d4)))]

\* one PERFORM upsert_monthly_points(...) of a trigger
Call(e, y, m, d1, d2, d3, d4) ==
  [e |-> e, y |-> y, m |-> m, d1 |-> d1, d2 |-> d2, d3 |-> d3, d4 |-> d4]

\* the PERFORMs of one statement, in order; an error aborts the statement
RECURSIVE ApplyCalls(_, _)
ApplyCalls(L, calls) ==
  IF calls = <<>> THEN [ok |-> TRUE, ledger |-> L]
  ELSE LET c == Head(calls)
           r == upsert_monthly_points(L, c.e, c.y, c.m, c.d1, c.d2, c.d3, c.d4)
       IN IF r.ok THEN ApplyCalls(r.ledger, Tail(calls)) ELSE r

(* ---------------- update_monthly_points_on_report_change ---------------- *)
LegacyBonus(resolver_id, employee_id) ==
  IF resolver_id = employee_id THEN 1 ELSE 2

\* variant: the report is not counted
ReportInsertCalls_NoCount(new_row) ==
  << Call(new_row.employee_id, ExtractYear(new_row.created_at), ExtractMonth(new_row.created_at),
          new_row.points_awarded, 0, 0, 0) >>

ReportInsertCalls(new_row) ==
  << Call(new_row.employee_id, ExtractYear(new_row.created_at), ExtractMonth(new_row.created_at),
          new_row.points_awarded, 0, 1, 0) >>

\* variant: the new points are added instead of the difference
ReportUpdateCalls_Absolute(old_row, new_row) ==
  IF old_row.points_awarded # new_row.points_awarded
  THEN << Call(new_row.employee_id, ExtractYear(new_row.created_at),
               ExtractMonth(new_row.created_at), new_row.points_awarded, 0, 0, 0) >>
  ELSE << >>

\* variant: a change of the author moves the report to the new author's entry
ReportUpdateCalls_MovesAuthor(old_row, new_row) ==
  LET report_year == ExtractYear(new_row.created_at)
      report_month == ExtractMonth(new_row.created_at)
      old_resolver_id == old_row.resolved_by_id
      new_resolver_id == new_row.resolved_by_id
      pointsPart ==
        IF old_row.points_awarded # new_row.points_awarded
        THEN << Call(new_row.employee_id, report_year, report_month,
                     new_row.points_awarded - old_row.points_awarded, 0, 0, 0) >>
        ELSE << >>
      assignPart ==
        IF new_resolver_id # NULL /\ (old_resolver_id = NULL \/ old_resolver_id # new_resolver_id)
        THEN << Call(new_resolver_id, report_year, report_month,
                     0, LegacyBonus(new_resolver_id, new_row.employee_id), 0, 1) >>
             \o (IF old_resolver_id # NULL
                 THEN << Call(old_resolver_id, report_year, report_month,
                              0, 0 - LegacyBonus(old_resolver_id, old_row.employee_id), 0, -1) >>
                 ELSE << >>)
        ELSE << >>
      clearPart ==
        IF old_resolver_id # NULL /\ new_resolver_id = NULL
        THEN << Call(old_resolver_id, report_year, report_month,
                     0, 0 - LegacyBonus(old_resolver_id, old_row.employee_id), 0, -1) >>
        ELSE << >>
      movePart ==
        IF old_row.employee_id # new_row.employee_id
        THEN << Call(old_row.employee_id, report_year, report_month,
                     0 - old_row.points_awarded, 0, -1, 0),
                Call(new_row.employee_id, report_year, report_month,
                     old_row.points_awarded, 0, 1, 0) >>
        ELSE << >>
  IN pointsPart \o assignPart \o clearPart \o movePart

ReportUpdateCalls(old_row, new_row) ==
  LET report_year == ExtractYear(new_row.created_at)
      report_month == ExtractMonth(new_row.created_at)
      old_resolver_id == old_row.resolved_by_id
      new_resolver_id == new_row.resolved_by_id
      pointsPart ==
        IF old_row.points_awarded # new_row.points_awarded
        THEN << Call(new_row.employee_id, report_year, report_month,
                     new_row.points_awarded - old_row.points_awarded, 0, 0, 0) >>
        ELSE << >>
      assignPart ==
        IF new_resolver_id # NULL /\ (old_resolver_id = NULL \/ old_resolver_id # new_resolver_id)
        THEN << Call(new_resolver_id, report_year, report_month,
                     0, LegacyBonus(new_resolver_id, new_row.employee_id), 0, 1) >>
             \o (IF old_resolver_id # NULL
                 THEN << Call(old_resolver_id, report_year, report_month,
                              0, 0 - LegacyBonus(old_resolver_id, old_row.employee_id), 0, -1) >>
                 ELSE << >>)
        ELSE << >>
      clearPart ==
        IF old_resolver_id # NULL /\ new_resolver_id = NULL
        THEN << Call(old_resolver_id, report_year, report_month,
                     0, 0 - LegacyBonus(old_resolver_id, old_row.employee_id), 0, -1) >>
        ELSE << >>
  IN pointsPart \o assignPart \o clearPart

\* variant: the bucket is the month of the deletion
ReportDeleteCalls_AtNow(old_row) ==
  << Call(old_row.employee_id, ExtractYear(now), ExtractMonth(now),
          0 - old_row.points_awarded, 0, -1, 0) >>

ReportDeleteCalls(old_row) ==
  LET report_year == ExtractYear(old_row.created_at)
      report_month == ExtractMonth(old_row.created_at)
  IN << Call(old_row.employee_id, report_year, report_month,
             0 - old_row.points_awarded, 0, -1, 0) >>
     \o (IF old_row.resolved_by_id # NULL
         THEN << Call(old_row.resolved_by_id, report_year, report_month,
                      0, 0 - LegacyBonus(old_row.resolved_by_id, old_row.employee_id), 0, -1) >>
         ELSE << >>)

(* ---------------- handle_resolver_insert / handle_resolver_delete ---------------- *)
\* SELECT sr.employee_id, EXTRACT(YEAR ...), EXTRACT(MONTH ...) INTO ...
\* FROM safety_reports sr WHERE sr.id = id: all NULL when no row is visible
ReportLookup(reps, id) ==
  IF id \in DOMAIN reps
  THEN [employee_id |-> reps[id].employee_id,
        year |-> ExtractYear(reps[id].created_at),
        month |-> ExtractMonth(reps[id].created_at)]
  ELSE [employee_id |-> NULL, year |-> NULL, month |-> NULL]

\* variant: every resolver gets the bonus of resolving somebody else's report
ResolverInsertBonus_Flat(reps, report_id, resolver_id) == 2

ResolverInsertBonus(reps, report_id, resolver_id) ==
  calculate_resolver_points(resolver_id, ReportLookup(reps, report_id).employee_id)

\* variant: the bucket is the month in which the assignment is made
ResolverInsertCalls_AtNow(reps, report_id, resolver_id) ==
  << Call(resolver_id, ExtractYear(now), ExtractMonth(now),
          0, ResolverInsertBonus(reps, report_id, resolver_id), 0, 1) >>

ResolverInsertCalls(reps, report_id, resolver_id) ==
  LET sr == ReportLookup(reps, report_id)
  IN << Call(resolver_id, sr.year, sr.month,
             0, ResolverInsertBonus(reps, report_id, resolver_id), 0, 1) >>

\* variant: the resolved report stays counted
ResolverDeleteCalls_NoCount(reps, report_id, resolver_id, points_awarded) ==
  LET sr == ReportLookup(reps, report_id)
  IN << Call(resolver_id, sr.year, sr.month, 0, 0 - points_awarded, 0, 0) >>

\* variant: the bucket is the month of the removal
ResolverDeleteCalls_AtNow(reps, report_id, resolver_id, points_awarded) ==
  << Call(resolver_id, ExtractYear(now), ExtractMonth(now), 0, 0 - points_awarded, 0, -1) >>

ResolverDeleteCalls(reps, report_id, resolver_id, points_awarded) ==
  LET sr == ReportLookup(reps, report_id)
  IN << Call(resolver_id, sr.year, sr.month, 0, 0 - points_awarded, 0, -1) >>

(* ---------------- the statements ---------------- *)
\* INSERT INTO safety_reports: created_at defaults to now(), the id is fresh
InsertReport(e, p) ==
  /\ nextId < NumReports
  /\ LET id == nextId + 1
         new_row == ReportRow(e, now, p, NULL, "pending")
         r == ApplyCalls(ledger, ReportInsertCalls(new_row))
     IN /\ r.ok
        /\ reports' = reports @@ (id :> new_row)
        /\ ledger' = r.ledger
        /\ nextId' = id
  /\ UNCHANGED <<now, resolvers, steps, rpc, procs, uiVars, rebuildVars, syncVars>>

\* UPDATE safety_reports SET ... WHERE id = id
UpdateReport(id, new_row) ==
  /\ id \in DOMAIN reports
  /\ new_row.created_at = reports[id].created_at
  /\ LET r == ApplyCalls(ledger, ReportUpdateCalls(reports[id], new_row))
     IN /\ r.ok
        /\ reports' = [reports EXCEPT ![id] = new_row]
        /\ ledger' = r.ledger
  /\ UNCHANGED <<now, nextId, resolvers, rpc, procs, uiVars, rebuildVars, syncVars>>

\* the rows of report_resolvers of one report, in some order
RECURSIVE KeysInOrder(_)
KeysInOrder(S) ==
  IF S = {} THEN << >>
  ELSE LET k == CHOOSE x \in S : \A z \in S : x[2] <= z[2]
       IN <<k>> \o KeysInOrder(S \ {k})

RECURSIVE CascadeCalls(_, _, _)
CascadeCalls(reps, res, keys) ==
  IF keys = << >> THEN << >>
  ELSE LET k == Head(keys)
       IN ResolverDeleteCalls(reps, k[1], k[2], res[k]) \o CascadeCalls(reps, res, Tail(keys))

\* DELETE FROM safety_reports WHERE id = id.  The row is gone when the AFTER
\* triggers run: the trigger of safety_reports works on old_row, the cascade
\* to report_resolvers fires handle_resolver_delete for every assignment.
\* An error in any of them aborts the statement.
DeleteReportResult(L, reps, res, id) ==
  LET old_row == reps[id]
      repsAfter == Remove(reps, {id})
      cascaded == {k \in DOMAIN res : k[1] = id}
  IN ApplyCalls(L, ReportDeleteCalls(old_row)
                   \o CascadeCalls(repsAfter, res, KeysInOrder(cascaded)))

DeleteReport(id) ==
  /\ id \in DOMAIN reports
  /\ LET r == DeleteReportResult(ledger, reports, resolvers, id)
     IN /\ r.ok
        /\ reports' = Remove(reports, {id})
        /\ resolvers' = Remove(resolvers, {k \in DOMAIN resolvers : k[1] = id})
        /\ ledger' = r.ledger
  /\ UNCHANGED <<now, nextId, steps, rpc, procs, uiVars, rebuildVars, syncVars>>

\* INSERT INTO report_resolvers (report_id, resolver_id, points_awarded):
\* the BEFORE INSERT trigger overwrites points_awarded with the bonus
InsertResolver(report_id, resolver_id, points_in) ==
  /\ report_id \in DOMAIN reports
  /\ <<report_id, resolver_id>> \notin DOMAIN resolvers
  /\ LET r == ApplyCalls(ledger, ResolverInsertCalls(reports, report_id, resolver_id))
     IN /\ r.ok
        /\ resolvers' = resolvers @@
             (<<report_id, resolver_id>> :>
                 ResolverInsertBonus(reports, report_id, resolver_id))
        /\ ledger' = r.ledger
  /\ UNCHANGED <<now, nextId, reports, steps, rpc, procs, uiVars, rebuildVars, syncVars>>

\* DELETE FROM report_resolvers WHERE id = ...
DeleteResolver(report_id, resolver_id) ==
  /\ <<report_id, resolver_id>> \in DOMAIN resolvers
  /\ LET r == ApplyCalls(ledger, ResolverDeleteCalls(reports, report_id, resolver_id,
                                                    resolvers[<<report_id, resolver_id>>]))
     IN /\ r.ok
        /\ resolvers' = Remove(resolvers, {<<report_id, resolver_id>>})
        /\ ledger' = r.ledger
  /\ UNCHANGED <<now, nextId, reports, steps, rpc, procs, uiVars, rebuildVars, syncVars>>

\* time passes
Tick ==
  /\ now + 1 \in Times
  /\ now' = now + 1
  /\ UNCHANGED <<nextId, reports, resolvers, ledger, steps, rpc, procs, uiVars, rebuildVars, syncVars>>

(* ---------------- backfill (DO block of the monthly points migration) ---------------- *)
\* SELECT * FROM safety_reports ORDER BY created_at
RECURSIVE ReportsByCreatedAt(_, _)
ReportsByCreatedAt(reps, ids) ==
  IF ids = {} THEN << >>
  ELSE LET id == CHOOSE x \in ids : \A z \in ids :
                    \/ reps[x].created_at < reps[z].created_at
                    \/ (reps[x].created_at = reps[z].created_at /\ x <= z)
       IN <<reps[id]>> \o ReportsByCreatedAt(reps, ids \ {id})

BackfillRowCalls(report_record) ==
  LET report_year == ExtractYear(report_record.created_at)
      report_month == ExtractMonth(report_record.created_at)
  IN << Call(report_record.employee_id, report_year, report_month,
             report_record.points_awarded, 0, 1, 0) >>
     \o (IF report_record.resolved_by_id # NULL
         THEN << Call(report_record.resolved_by_id, report_year, report_month, 0,
                      LegacyBonus(report_record.resolved_by_id, report_record.employee_id),
                      0, 1) >>
         ELSE << >>)

RECURSIVE BackfillCalls(_)
BackfillCalls(rows) ==
  IF rows = << >> THEN << >>
  ELSE BackfillRowCalls(Head(rows)) \o BackfillCalls(Tail(rows))

\* TRUNCATE monthly_employee_points, then the loop over all reports
BackfillResult(reps) ==
  ApplyCalls(EmptyFcn, BackfillCalls(ReportsByCreatedAt(reps, DOMAIN reps)))

(* ---------------- direct calls of upsert_monthly_points ---------------- *)
\* the four counters of a key, zero when the key has no entry
Counters(L, k) ==
  IF k \in DOMAIN L
  THEN <<L[k].reporter_points, L[k].resolver_points, L[k].report_count, L[k].resolved_count>>
  ELSE <<0, 0, 0, 0>>

NoCall == [e |-> NULL, y |-> NULL, m |-> NULL, d |-> <<0, 0, 0, 0>>,
           existed |-> FALSE, before |-> <<0, 0, 0, 0>>, raised |-> FALSE]

\* SELECT upsert_monthly_points(e, y, m, d1, d2, d3, d4) as one statement
UpsertRpc(e, y, m, d1, d2, d3, d4) ==
  /\ steps < MaxCalls
  /\ steps' = steps + 1
  /\ LET r == upsert_monthly_points(ledger, e, y, m, d1, d2, d3, d4)
     IN /\ ledger' = r.ledger
        /\ rpc' = [e |-> e, y |-> y, m |-> m, d |-> <<d1, d2, d3, d4>>,
                   existed |-> <<e, y, m>> \in DOMAIN ledger,
                   before |-> Counters(ledger, <<e, y, m>>),
                   raised |-> ~r.ok]
  /\ UNCHANGED <<now, nextId, reports, resolvers, procs, uiVars, rebuildVars, syncVars>>

(* ---------------- concurrent sessions ---------------- *)
\* Each session runs its calls one after another, every call in a
\* transaction of its own (READ COMMITTED): the statement takes its snapshot,
\* then INSERT ... ON CONFLICT DO UPDATE either inserts the row or locks the
\* conflicting row, waiting for the transaction that holds it, and updates
\* the newest version of the row; the lock is held until commit.
Procs == 1..NumProcs

FirstKey == <<1, ExtractYear(FirstNow), ExtractMonth(FirstNow)>>

IdleProc(k, stream) ==
  [key |-> k, stream |-> stream, pos |-> 0, pc |-> "idle",
   snap |-> [existed |-> FALSE, c |-> <<0, 0, 0, 0>>]]

\* variant: the update works on the row as the statement's snapshot saw it
TableSeenByUpdate_Snapshot(L, k, snap) ==
  IF snap.existed
  THEN [L EXCEPT ![k] = LedgerRow(snap.c[1], snap.c[2], snap.c[3], snap.c[4])]
  ELSE Remove(L, {k})

\* the table as the DO UPDATE of session p sees it: the snapshot of the
\* statement plays no part, the row is read again once it is locked
TableSeenByUpdate(L, k, snap) == L

StartCall(p) ==
  /\ procs[p].pc = "idle"
  /\ procs[p].pos < Len(procs[p].stream)
  /\ procs' = [procs EXCEPT ![p].pc = "started",
                            ![p].snap = [existed |-> procs[p].key \in DOMAIN ledger,
                                         c |-> Counters(ledger, procs[p].key)]]
  /\ UNCHANGED <<now, nextId, reports, resolvers, ledger, steps, rpc, uiVars, rebuildVars, syncVars>>

WriteCall(p) ==
  /\ procs[p].pc = "started"
  /\ \A q \in Procs \ {p} : ~(procs[q].pc = "written" /\ procs[q].key = procs[p].key)
  /\ LET k == procs[p].key
         d == procs[p].stream[procs[p].pos + 1]
         r == upsert_monthly_points(TableSeenByUpdate(ledger, k, procs[p].snap),
                                    k[1], k[2], k[3], d[1], d[2], d[3], d[4])
     IN /\ r.ok
        /\ ledger' = r.ledger
  /\ procs' = [procs EXCEPT ![p].pc = "written"]
  /\ UNCHANGED <<now, nextId, reports, resolvers, steps, rpc, uiVars, rebuildVars, syncVars>>

CommitCall(p) ==
  /\ procs[p].pc = "written"
  /\ procs' = [procs EXCEPT ![p].pc = "idle", ![p].pos = @ + 1]
  /\ UNCHANGED <<now, nextId, reports, resolvers, ledger, steps, rpc, uiVars, rebuildVars, syncVars>>

(* ---------------- initial values of the sessions and of the clients ---------------- *)
\* profiles.points DEFAULT 0
NoPoints == [e \in Employees |-> 0]

\* the backfill session before it starts: no row to process, nothing saved
\* for a rollback, and no rebuild whose result is still in the table
IdleBackfill ==
  [pc |-> "idle", rows |-> << >>, snap |-> EmptyFcn, saved |-> EmptyFcn,
   built |-> [valid |-> FALSE, reports |-> EmptyFcn], last |-> "none", runs |-> 0]

\* a session with no statement in progress
IdleLive == [pc |-> "idle", reports |-> EmptyFcn, before |-> EmptyFcn]

\* no reader has read the ledger yet
NotRead == <<-1, -1>>

\* nothing was saved while offline
NoPending == [queue |-> << >>, saved |-> 0]

\* the calls of syncPendingReports that can be in progress at a time: the one
\* of getSession().then and the one of onAuthStateChange
SyncRuns == 1..2

\* a call of syncPendingReports that has not started or has returned
IdleSync ==
  [pc |-> "idle", userId |-> NULL, todo |-> << >>, newReport |-> NULL,
   success |-> 0, failed |-> 0]

(* ---------------- specification of the five ledger events ---------------- *)
Init ==
  /\ now = FirstNow
  /\ nextId = 0
  /\ reports = EmptyFcn
  /\ resolvers = EmptyFcn
  /\ ledger = EmptyFcn
  /\ steps = 0
  /\ rpc = NoCall
  /\ procs = [p \in Procs |-> IdleProc(FirstKey, << >>)]
  /\ profiles = NoPoints
  /\ board = << >>
  /\ backfill = IdleBackfill
  /\ live = IdleLive
  /\ seen = NotRead
  /\ pending = NoPending
  /\ syncs = [r \in SyncRuns |-> IdleSync]
  /\ content = EmptyFcn

ReportCreated == \E e \in Employees, p \in Points : InsertReport(e, p)

ReportPointsEdited ==
  \E id \in ReportIds, p \in Points :
     /\ id \in DOMAIN reports
     /\ UpdateReport(id, [reports[id] EXCEPT !.points_awarded = p])
     /\ UNCHANGED steps

ReportDeleted == \E id \in ReportIds : DeleteReport(id)

\* the admin client sends the bonus it computed itself
ClientBonus(resolverId, employee_id) == IF resolverId = employee_id THEN 1 ELSE 2

ResolverAdded ==
  \E id \in ReportIds, e \in Employees :
     /\ id \in DOMAIN reports
     /\ InsertResolver(id, e, ClientBonus(e, reports[id].employee_id))

ResolverRemoved == \E id \in ReportIds, e \in Employees : DeleteResolver(id, e)

\* any other UPDATE of a report: author, points, legacy resolver column, status
ReportUpdated ==
  \E id \in ReportIds, e \in Employees, p \in Points,
     res \in Employees \cup {NULL}, st \in Statuses :
     /\ id \in DOMAIN reports
     /\ steps < MaxSteps
     /\ ReportRow(e, reports[id].created_at, p, res, st) # reports[id]
     /\ UpdateReport(id, ReportRow(e, reports[id].created_at, p, res, st))
     /\ steps' = steps + 1

BackfillRun ==
  /\ steps < MaxSteps
  /\ steps' = steps + 1
  /\ BackfillResult(reports).ok
  /\ ledger' = BackfillResult(reports).ledger
  /\ UNCHANGED <<now, nextId, reports, resolvers, rpc, procs, uiVars, rebuildVars, syncVars>>

NextEvents ==
  \/ ReportCreated
  \/ ReportPointsEdited
  \/ ReportDeleted
  \/ ResolverAdded
  \/ ResolverRemoved
  \/ Tick

SpecEvents == Init /\ [][NextEvents]_vars

(* ---------------- specification of all statements on the tables ---------------- *)
Next ==
  \/ ReportCreated
  \/ ReportPointsEdited
  \/ ReportUpdated
  \/ ReportDeleted
  \/ ResolverAdded
  \/ ResolverRemoved
  \/ BackfillRun
  \/ Tick

Spec == Init /\ [][Next]_vars

(* ---------------- vocabulary of the properties ---------------- *)
AllKeys == {<<e, ExtractYear(t), ExtractMonth(t)>> : e \in Employees, t \in Times}

KeyOf(e, t) == <<e, t \div 12, (t % 12) + 1>>

Max0(x) == IF x < 0 THEN 0 ELSE x

\* counters c after the delta d, with the floor of zero
Adjusted(c, d) == <<Max0(c[1] + d[1]), Max0(c[2] + d[2]), Max0(c[3] + d[3]), Max0(c[4] + d[4])>>

RECURSIVE SumOver(_, _)
SumOver(f, S) ==
  IF S = {} THEN 0
  ELSE LET x == CHOOSE y \in S : TRUE IN f[x] + SumOver(f, S \ {x})

ReportsOf(k) == {id \in DOMAIN reports : KeyOf(reports[id].employee_id, reports[id].created_at) = k}

AssignmentsOf(k) ==
  {a \in DOMAIN resolvers :
     a[1] \in DOMAIN reports /\ KeyOf(a[2], reports[a[1]].created_at) = k}

\* every entry but k is the same in L1 and L2
SameExcept(L1, L2, k) ==
  \A k2 \in (DOMAIN L1 \cup DOMAIN L2) \ {k} :
     k2 \in DOMAIN L1 /\ k2 \in DOMAIN L2 /\ L1[k2] = L2[k2]

(* C1: with only the five ledger events, every key's report_count and
   reporter_points are the number and the points sum of the existing reports
   of that author created in that month, and its resolved_count and
   resolver_points are the number and the frozen-bonus sum of the existing
   assignments of that resolver whose parent report was created in that month. *)
C1_LedgerConsistency ==
  \A k \in AllKeys \cup DOMAIN ledger :
     Counters(ledger, k) =
       << SumOver([id \in ReportsOf(k) |-> reports[id].points_awarded], ReportsOf(k)),
          SumOver([a \in AssignmentsOf(k) |-> resolvers[a]], AssignmentsOf(k)),
          Cardinality(ReportsOf(k)),
          Cardinality(AssignmentsOf(k)) >>

\* a report was deleted, another one with points exists and has an assignment
C1_Witness ==
  /\ nextId > Cardinality(DOMAIN reports)
  /\ \E a \in DOMAIN resolvers : reports[a[1]].points_awarded > 0

(* C2: the ledger rebuilt by the backfill from the current report and
   assignment rows has the same counters as the incrementally maintained
   ledger, for every key. *)
C2_RebuildEquivalence ==
  /\ BackfillResult(reports).ok
  /\ \A k \in AllKeys \cup DOMAIN ledger :
        Counters(BackfillResult(reports).ledger, k) = Counters(ledger, k)

(* ---------------- specification of the direct calls ---------------- *)
\* the deltas of a call touch the reporter side or the resolver side, as
\* every PERFORM of the triggers does
DirectDeltas ==
  {<<d, 0, c, 0>> : d \in DeltaValues, c \in CountDeltas}
    \cup {<<0, d, 0, c>> : d \in DeltaValues, c \in CountDeltas}

DirectCall ==
  \E e \in Employees, t \in Times, d \in DirectDeltas :
       UpsertRpc(e, ExtractYear(t), ExtractMonth(t), d[1], d[2], d[3], d[4])

NextApply == DirectCall

SpecApply == Init /\ [][NextApply]_vars

(* C3: every stored counter of every ledger entry is at least 0, whatever
   deltas were applied and in whatever order. *)
C3_NonNegative ==
  \A k \in DOMAIN ledger :
     /\ ledger[k].reporter_points >= 0
     /\ ledger[k].resolver_points >= 0
     /\ ledger[k].report_count >= 0
     /\ ledger[k].resolved_count >= 0

\* a delete-shaped delta has just met counters that were all zero
C3_Witness ==
  /\ rpc.e # NULL
  /\ rpc.d[1] < 0 /\ rpc.d[3] < 0
  /\ rpc.before = <<0, 0, 0, 0>>
  /\ <<rpc.e, rpc.y, rpc.m>> \in DOMAIN ledger

(* C4: total_points of every ledger entry is reporter_points + resolver_points. *)
C4_TotalIsSum ==
  \A k \in DOMAIN ledger :
     ledger[k].total_points = ledger[k].reporter_points + ledger[k].resolver_points

\* an entry whose two addends are both positive
C4_Witness ==
  \E k \in DOMAIN ledger :
     ledger[k].reporter_points > 0 /\ ledger[k].resolver_points > 0

(* C5: after a call of upsert_monthly_points the entry of the key exists and
   each counter is max(0, previous + delta), previous being 0 when the key had
   no entry; the call does not raise, also on a first touch with negative
   deltas. *)
C5_ApplyDelta ==
  rpc.e # NULL =>
     /\ ~rpc.raised
     /\ <<rpc.e, rpc.y, rpc.m>> \in DOMAIN ledger
     /\ Counters(ledger, <<rpc.e, rpc.y, rpc.m>>)
          = Adjusted(IF rpc.existed THEN rpc.before ELSE <<0, 0, 0, 0>>, rpc.d)

\* a first touch of a key with a negative delta
C5_Witness ==
  /\ rpc.e # NULL
  /\ ~rpc.existed
  /\ rpc.d[2] < 0
  /\ <<rpc.e, rpc.y, rpc.m>> \in DOMAIN ledger

(* C8: the insertion of a report of author E with p points adds exactly
   (+p, 0, +1, 0) to E's entry for the year and month of the report's
   created_at, and leaves every other entry as it was. *)
C8_ReportCreated ==
  [][\A id \in ReportIds :
       (id \notin DOMAIN reports /\ id \in DOMAIN reports') =>
          LET row == reports'[id]
              k == KeyOf(row.employee_id, row.created_at)
          IN /\ k \in DOMAIN ledger'
             /\ Counters(ledger', k)
                  = Adjusted(Counters(ledger, k), <<row.points_awarded, 0, 1, 0>>)
             /\ SameExcept(ledger, ledger', k)]_vars

\* a report with points exists in an entry that counts two reports
C8_Witness ==
  \E id \in DOMAIN reports :
     /\ reports[id].points_awarded > 0
     /\ Counters(ledger, KeyOf(reports[id].employee_id, reports[id].created_at))[3] = 2

(* C9: an edit of a report's points from old to new adds (new - old, 0, 0, 0)
   to the author's entry for the report's creation year and month and changes
   no other entry; a statement that changes no row changes no entry; and a
   single report set to 2 points leaves its author's entry at (2, 0, 1, 0). *)
C9_PointsEdited ==
  [][/\ \A id \in DOMAIN reports \cap DOMAIN reports' :
          reports'[id].points_awarded # reports[id].points_awarded =>
             LET k == KeyOf(reports[id].employee_id, reports[id].created_at)
             IN /\ Counters(ledger', k)
                     = Adjusted(Counters(ledger, k),
                                <<reports'[id].points_awarded - reports[id].points_awarded,
                                  0, 0, 0>>)
                /\ SameExcept(ledger, ledger', k)
                /\ (nextId = 1 /\ resolvers = EmptyFcn /\ reports'[id].points_awarded = 2)
                      => Counters(ledger', k) = <<2, 0, 1, 0>>
     /\ (reports' = reports /\ resolvers' = resolvers) => ledger' = ledger]_vars

\* the only report ever created now has 2 points, in a month after its creation
C9_Witness ==
  /\ nextId = 1
  /\ 1 \in DOMAIN reports
  /\ reports[1].points_awarded = 2
  /\ now > reports[1].created_at

(* C10: the deletion of a report of author E with current points p adds
   (-p, 0, -1, 0) to E's entry for the year and month of the report's
   created_at, whatever the time of the deletion. *)
C10_ReportDeleted ==
  [][\A id \in DOMAIN reports :
       id \notin DOMAIN reports' =>
          LET row == reports[id]
              k == KeyOf(row.employee_id, row.created_at)
          IN /\ Counters(ledger', k)
                  = Adjusted(Counters(ledger, k), <<0 - row.points_awarded, 0, -1, 0>>)
             /\ SameExcept(ledger, ledger', k)]_vars

\* a report was created in the first month and deleted in a later one, and
\* the entry of its month is back to zero while a later report still counts
C10_Witness ==
  /\ nextId = 2
  /\ DOMAIN reports = {2}
  /\ reports[2].created_at > FirstNow
  /\ \E e \in Employees : KeyOf(e, FirstNow) \in DOMAIN ledger
  /\ \A e \in Employees : Counters(ledger, KeyOf(e, FirstNow)) = <<0, 0, 0, 0>>

(* ---------------- specification of the concurrent sessions ---------------- *)
\* the deltas of a report creation and of a report deletion
StreamDeltas == {<<MaxDelta, 0, 1, 0>>, <<0 - MaxDelta, 0, -1, 0>>}

\* streams of one or two calls
Streams == UNION {[1..n -> StreamDeltas] : n \in 1..2}

\* the keys of the sessions: one month of an employee, and the next month
\* of the same employee
SessionKeys == {FirstKey, <<1, ExtractYear(FirstNow + 1), ExtractMonth(FirstNow + 1)>>}

InitConc ==
  /\ now = FirstNow
  /\ nextId = 0
  /\ reports = EmptyFcn
  /\ resolvers = EmptyFcn
  /\ ledger = EmptyFcn
  /\ steps = 0
  /\ rpc = NoCall
  /\ \E ks \in [Procs -> SessionKeys], ss \in [Procs -> Streams] :
        /\ ks[1] = FirstKey
        /\ procs = [p \in Procs |-> IdleProc(ks[p], ss[p])]
  /\ profiles = NoPoints
  /\ board = << >>
  /\ backfill = IdleBackfill
  /\ live = IdleLive
  /\ seen = NotRead
  /\ pending = NoPending
  /\ syncs = [r \in SyncRuns |-> IdleSync]
  /\ content = EmptyFcn

Start == \E p \in Procs : StartCall(p)
Write == \E p \in Procs : WriteCall(p)
Commit == \E p \in Procs : CommitCall(p)

NextConc == Start \/ Write \/ Commit

SpecConc == InitConc /\ [][NextConc]_vars

AllDone == \A p \in Procs : procs[p].pc = "idle" /\ procs[p].pos = Len(procs[p].stream)

\* the results of running the remaining calls of the sessions in S one after
\* another, in every order that keeps each session's own order
RECURSIVE SerialResults(_, _, _)
SerialResults(c, S, done) ==
  LET left == {p \in S : done[p] < Len(procs[p].stream)}
  IN IF left = {} THEN {c}
     ELSE UNION {SerialResults(Adjusted(c, procs[p].stream[done[p] + 1]), S,
                               [done EXCEPT ![p] = @ + 1]) : p \in left}

SessionsOn(k) == {p \in Procs : procs[p].key = k}

(* C6: when concurrent calls on one key have all committed, the entry of the
   key is what running those calls one after another in some order gives: no
   delta is lost, also when the calls are the first touches of the key. *)
C6_PerKeyAtomic ==
  AllDone =>
    \A k \in AllKeys :
       Cardinality(SessionsOn(k)) >= 2 =>
          Counters(ledger, k) \in SerialResults(<<0, 0, 0, 0>>, SessionsOn(k), [p \in Procs |-> 0])

\* two sessions started on the same absent key before either wrote, and both are done
C6_Witness ==
  /\ AllDone
  /\ \E p \in Procs, q \in Procs :
        /\ p # q
        /\ procs[p].key = procs[q].key
        /\ Len(procs[p].stream) = 1 /\ Len(procs[q].stream) = 1
        /\ ~procs[p].snap.existed /\ ~procs[q].snap.existed

(* C7: when the event streams of two distinct keys are applied in any
   interleaving, each key ends with the entry its own stream gives alone. *)
C7_DisjointKeys ==
  AllDone =>
    \A p \in Procs :
       SessionsOn(procs[p].key) = {p} =>
          Counters(ledger, procs[p].key)
             \in SerialResults(<<0, 0, 0, 0>>, {p}, [q \in Procs |-> 0])

\* two streams of two calls each on distinct keys, interleaved: each session
\* began its second call on an entry the other had not touched
C7_Witness ==
  /\ AllDone
  /\ \A p \in Procs : SessionsOn(procs[p].key) = {p} /\ Len(procs[p].stream) = 2
  /\ \E p \in Procs : procs[p].key[1] = 1 /\ procs[p].key # FirstKey

(* ---------------- resolver assignments ---------------- *)
(* C11: the insertion of an assignment of resolver R to a report stores the
   bonus (1 when R is the report's author, 2 otherwise) on the assignment row
   and adds exactly (0, +bonus, 0, +1) to R's entry for the year and month of
   the report's created_at, whatever the month in which the assignment is
   made; no other entry changes. *)
C11_ResolverAdded ==
  [][\A a \in DOMAIN resolvers' \ DOMAIN resolvers :
       LET row == reports[a[1]]
           k == KeyOf(a[2], row.created_at)
           bonus == IF a[2] = row.employee_id THEN 1 ELSE 2
       IN /\ resolvers'[a] = bonus
          /\ k \in DOMAIN ledger'
          /\ Counters(ledger', k) = Adjusted(Counters(ledger, k), <<0, bonus, 0, 1>>)
          /\ SameExcept(ledger, ledger', k)]_vars

\* somebody resolved another employee's report of an earlier month, and is
\* credited in the month of the report while the current month has nothing
C11_Witness ==
  \E a \in DOMAIN resolvers :
     /\ reports[a[1]].created_at < now
     /\ a[2] # reports[a[1]].employee_id
     /\ resolvers[a] = 2
     /\ Counters(ledger, KeyOf(a[2], reports[a[1]].created_at))[4] >= 1
     /\ Counters(ledger, KeyOf(a[2], now)) = <<0, 0, 0, 0>>

(* C12: the deletion of an assignment of resolver R adds exactly
   (0, -frozen_bonus, 0, -1) to R's entry for the year and month of the parent
   report's created_at, frozen_bonus being the points_awarded stored on the
   assignment row; no other entry changes. *)
C12_ResolverRemoved ==
  [][\A a \in DOMAIN resolvers \ DOMAIN resolvers' :
       reports' = reports =>
          LET k == KeyOf(a[2], reports[a[1]].created_at)
          IN /\ Counters(ledger', k)
                  = Adjusted(Counters(ledger, k), <<0, 0 - resolvers[a], 0, -1>>)
             /\ SameExcept(ledger, ledger', k)]_vars

\* an employee resolved two reports of one month and one of the two
\* assignments was removed in a later month: the other one is still credited
C12_Witness ==
  /\ now > FirstNow
  /\ \E a \in DOMAIN resolvers :
        /\ reports[a[1]].created_at = FirstNow
        /\ \E id \in DOMAIN reports \ {a[1]} :
              /\ reports[id].created_at = FirstNow
              /\ <<id, a[2]>> \notin DOMAIN resolvers
        /\ Counters(ledger, KeyOf(a[2], FirstNow))[2] = resolvers[a]
        /\ Counters(ledger, KeyOf(a[2], FirstNow))[4] = 1
        /\ Counters(ledger, KeyOf(a[2], now)) = <<0, 0, 0, 0>>

(* ---------------- the admin client: handleUpdateStatus ---------------- *)
\* the tables a client request works on
Db(reps, res, L, prof) ==
  [reports |-> reps, resolvers |-> res, ledger |-> L, profiles |-> prof]

\* UPDATE profiles SET points = COALESCE(points, 0) + x WHERE id = row_id
increment(prof, row_id, x) ==
  IF row_id \in DOMAIN prof THEN [prof EXCEPT ![row_id] = @ + x] ELSE prof

\* the requests of the client, each a statement and a transaction of its
\* own: a statement that raises leaves the tables as they were
InsertResolverStmt(db, report_id, resolver_id) ==
  LET r == ApplyCalls(db.ledger, ResolverInsertCalls(db.reports, report_id, resolver_id))
  IN IF /\ report_id \in DOMAIN db.reports
        /\ <<report_id, resolver_id>> \notin DOMAIN db.resolvers
        /\ r.ok
     THEN [db EXCEPT !.resolvers = @ @@ (<<report_id, resolver_id>> :>
                                          ResolverInsertBonus(db.reports, report_id, resolver_id)),
                     !.ledger = r.ledger]
     ELSE db

DeleteResolverStmt(db, report_id, resolver_id) ==
  IF <<report_id, resolver_id>> \in DOMAIN db.resolvers
  THEN LET r == ApplyCalls(db.ledger,
                           ResolverDeleteCalls(db.reports, report_id, resolver_id,
                                               db.resolvers[<<report_id, resolver_id>>]))
       IN IF r.ok
          THEN [db EXCEPT !.resolvers = Remove(@, {<<report_id, resolver_id>>}),
                          !.ledger = r.ledger]
          ELSE db
  ELSE db

UpdateReportStmt(db, id, status, points_awarded) ==
  IF id \in DOMAIN db.reports
  THEN LET new_row == [db.reports[id] EXCEPT !.status = status,
                                            !.points_awarded = points_awarded]
           r == ApplyCalls(db.ledger, ReportUpdateCalls(db.reports[id], new_row))
       IN IF r.ok
          THEN [db EXCEPT !.reports = [@ EXCEPT ![id] = new_row], !.ledger = r.ledger]
          ELSE db
  ELSE db

\* the ids of a list of the dialog, in the order of the list
RECURSIVE InOrder(_)
InOrder(S) ==
  IF S = {} THEN << >>
  ELSE LET x == CHOOSE y \in S : \A z \in S : y <= z
       IN <<x>> \o InOrder(S \ {x})

\* for (const resolverId of resolversToAdd): insert the assignment, then increment
RECURSIVE AddResolvers(_, _, _, _)
AddResolvers(db, report_id, employee_id, resolversToAdd) ==
  IF resolversToAdd = << >> THEN db
  ELSE LET resolverId == Head(resolversToAdd)
           bonusPoints == ClientBonus(resolverId, employee_id)
           inserted == InsertResolverStmt(db, report_id, resolverId)
       IN AddResolvers([inserted EXCEPT !.profiles = increment(@, resolverId, bonusPoints)],
                       report_id, employee_id, Tail(resolversToAdd))

\* for (const resolverId of resolversToRemove): increment by minus the
\* points of the loaded assignment, then delete the assignment
RECURSIVE RemoveResolvers(_, _, _, _)
RemoveResolvers(db, report_id, report_resolvers, resolversToRemove) ==
  IF resolversToRemove = << >> THEN db
  ELSE LET resolverId == Head(resolversToRemove)
           decremented == [db EXCEPT !.profiles =
                             increment(@, resolverId, 0 - report_resolvers[resolverId])]
       IN RemoveResolvers(DeleteResolverStmt(decremented, report_id, resolverId),
                          report_id, report_resolvers, Tail(resolversToRemove))

\* the dialog is saved for report id, which the client has just loaded
handleUpdateStatus(db, id, newStatus, pointsToAward, selectedResolvers) ==
  LET reportDetails == db.reports[id]
      existingResolverIds == {k[2] : k \in {kk \in DOMAIN db.resolvers : kk[1] = id}}
      report_resolvers == [r \in existingResolverIds |-> db.resolvers[<<id, r>>]]
      resolversToAdd == selectedResolvers \ existingResolverIds
      resolversToRemove == existingResolverIds \ selectedResolvers
      afterResolvers ==
        IF newStatus = "closed"
        THEN RemoveResolvers(AddResolvers(db, id, reportDetails.employee_id,
                                          InOrder(resolversToAdd)),
                             id, report_resolvers, InOrder(resolversToRemove))
        ELSE db
      afterIncrement ==
        IF pointsToAward > 0 /\ pointsToAward # reportDetails.points_awarded
        THEN [afterResolvers EXCEPT !.profiles =
                increment(@, reportDetails.employee_id,
                          pointsToAward - reportDetails.points_awarded)]
        ELSE afterResolvers
  IN UpdateReportStmt(afterIncrement, id, newStatus, pointsToAward)

\* the admin saves the dialog; closing a report without a resolver is refused
StatusSaved ==
  \E id \in DOMAIN reports, newStatus \in Statuses, selectedResolvers \in SUBSET Employees,
     pointsToAward \in Points \cup {reports[id].points_awarded : id \in DOMAIN reports} :
     /\ pointsToAward \in Points \cup {reports[id].points_awarded}
     /\ ~(newStatus = "closed" /\ selectedResolvers = {})
     /\ steps < MaxRuns
     /\ steps' = steps + 1
     /\ LET db == handleUpdateStatus(Db(reports, resolvers, ledger, profiles), id,
                                     newStatus, pointsToAward, selectedResolvers)
        IN /\ reports' = db.reports
           /\ resolvers' = db.resolvers
           /\ ledger' = db.ledger
           /\ profiles' = db.profiles
     /\ UNCHANGED <<now, nextId, rpc, procs, board, rebuildVars, syncVars>>

\* an employee files a report; its points are the column's DEFAULT 0 until
\* the admin awards some
ReportFiled ==
  \E e \in Employees :
     /\ nextId < MaxOpen
     /\ InsertReport(e, 0)

NextAdmin ==
  \/ ReportFiled
  \/ StatusSaved
  \/ ReportDeleted
  \/ Tick

SpecAdmin == Init /\ [][NextAdmin]_vars

\* the resolvers assigned to a report
ResolversOf(res, id) == {k[2] : k \in {kk \in DOMAIN res : kk[1] = id}}

\* a counter (1..4) summed over all entries of a ledger
Total(L, i) == SumOver([k \in DOMAIN L |-> Counters(L, k)[i]], DOMAIN L)

(* C13: when the dialog replaces the only resolver A of a report by B, A's
   entry for the report's month loses exactly A's stored bonus and one
   resolved report (and is back at 0 / 0 when A has no other assignment in
   that month), B's entry gains bonus(B) and one resolved report, the
   resolver_points summed over all entries change by bonus(B) - bonus(A), and
   the summed resolved_count does not change. *)
C13_ResolverReplaced ==
  [][\A id \in DOMAIN reports \cap DOMAIN reports', A \in Employees, B \in Employees :
       (ResolversOf(resolvers, id) = {A} /\ ResolversOf(resolvers', id) = {B} /\ A # B) =>
          LET kA == KeyOf(A, reports[id].created_at)
              kB == KeyOf(B, reports[id].created_at)
              bonusA == resolvers[<<id, A>>]
              bonusB == IF B = reports[id].employee_id THEN 1 ELSE 2
              othersOfA == {a \in DOMAIN resolvers' :
                              a[2] = A /\ KeyOf(A, reports'[a[1]].created_at) = kA}
          IN /\ Counters(ledger', kA)[2] = Counters(ledger, kA)[2] - bonusA
             /\ Counters(ledger', kA)[4] = Counters(ledger, kA)[4] - 1
             /\ othersOfA = {} =>
                   (Counters(ledger', kA)[2] = 0 /\ Counters(ledger', kA)[4] = 0)
             /\ Counters(ledger', kB)[2] = Counters(ledger, kB)[2] + bonusB
             /\ Counters(ledger', kB)[4] = Counters(ledger, kB)[4] + 1
             /\ Total(ledger', 2) - Total(ledger, 2) = bonusB - bonusA
             /\ Total(ledger', 4) = Total(ledger, 4)]_vars

\* employee 2 had resolved the report of employee 1 and was replaced by
\* employee 1: the entry of employee 2 is back at 0 / 0, employee 1 has 1 / 1
C13_Witness ==
  /\ 1 \in DOMAIN reports
  /\ reports[1].employee_id = 1
  /\ ResolversOf(resolvers, 1) = {1}
  /\ KeyOf(2, reports[1].created_at) \in DOMAIN ledger
  /\ Counters(ledger, KeyOf(2, reports[1].created_at)) = <<0, 0, 0, 0>>
  /\ Counters(ledger, KeyOf(1, reports[1].created_at))[2] = 1
  /\ Counters(ledger, KeyOf(1, reports[1].created_at))[4] = 1

(* C14: every existing report, whatever edits of its points and whatever
   additions and replacements of its resolvers it went through, can be
   deleted, and the deletion leaves every entry with the counters it has
   without the report and its assignments: the sums over the other reports
   and over the assignments of the other reports. *)
C14_DeleteRoundTrip ==
  \A id \in DOMAIN reports :
     LET r == DeleteReportResult(ledger, reports, resolvers, id)
         restReports(k) == ReportsOf(k) \ {id}
         restAssignments(k) == {a \in AssignmentsOf(k) : a[1] # id}
     IN /\ r.ok
        /\ \A k \in AllKeys \cup DOMAIN ledger :
              Counters(r.ledger, k) =
                << SumOver([i \in restReports(k) |-> reports[i].points_awarded], restReports(k)),
                   SumOver([a \in restAssignments(k) |-> resolvers[a]], restAssignments(k)),
                   Cardinality(restReports(k)),
                   Cardinality(restAssignments(k)) >>

(* ---------------- updates of the author and of the resolved_by_id column ---------------- *)
\* UPDATE safety_reports SET employee_id = e WHERE id = id
AuthorChanged ==
  \E id \in ReportIds, e \in Employees :
     /\ id \in DOMAIN reports
     /\ e # reports[id].employee_id
     /\ steps < MaxUpdates
     /\ UpdateReport(id, [reports[id] EXCEPT !.employee_id = e])
     /\ steps' = steps + 1

\* UPDATE safety_reports SET resolved_by_id = res WHERE id = id
LegacyResolverChanged ==
  \E id \in ReportIds, res \in Employees \cup {NULL} :
     /\ id \in DOMAIN reports
     /\ res # reports[id].resolved_by_id
     /\ steps < MaxUpdates
     /\ UpdateReport(id, [reports[id] EXCEPT !.resolved_by_id = res])
     /\ steps' = steps + 1

NextLegacy ==
  \/ ReportFiled
  \/ AuthorChanged
  \/ LegacyResolverChanged
  \/ ResolverAdded
  \/ ResolverRemoved
  \/ ReportDeleted
  \/ Tick

SpecLegacy == Init /\ [][NextLegacy]_vars

\* the reports whose resolved_by_id column credits key k
LegacyAssignmentsOf(k) ==
  {id \in DOMAIN reports :
     /\ reports[id].resolved_by_id # NULL
     /\ KeyOf(reports[id].resolved_by_id, reports[id].created_at) = k}

(* C15: what is credited for a resolver assignment is taken back in full
   when the assignment is removed, also when the report's author changed in
   between: an employee who has no assignment left in a month (no row of
   report_resolvers and no resolved_by_id) has resolver_points 0 and
   resolved_count 0 in that month. *)
C15_FrozenBonus ==
  \A k \in AllKeys \cup DOMAIN ledger :
     (AssignmentsOf(k) = {} /\ LegacyAssignmentsOf(k) = {}) =>
        (Counters(ledger, k)[2] = 0 /\ Counters(ledger, k)[4] = 0)

(* C16: the resolver bonus is 1 when the resolver is the report's author and
   2 otherwise, in the database function and in the admin client alike, and
   it is the value the assignment trigger stores on every assignment row. *)
C16_ResolverBonus ==
  /\ \A A \in Employees, B \in Employees :
        /\ calculate_resolver_points(A, B) = (IF A = B THEN 1 ELSE 2)
        /\ ClientBonus(A, B) = (IF A = B THEN 1 ELSE 2)
        /\ ClientBonus(A, B) = calculate_resolver_points(A, B)
  /\ \A a \in DOMAIN resolvers :
        resolvers[a] = (IF a[2] = reports[a[1]].employee_id THEN 1 ELSE 2)

\* a report resolved by its author and by somebody else: both bonuses are stored
C16_Witness ==
  \E id \in DOMAIN reports :
     /\ ResolversOf(resolvers, id) = Employees
     /\ resolvers[<<id, reports[id].employee_id>>] = 1
     /\ \E e \in Employees \ {reports[id].employee_id} : resolvers[<<id, e>>] = 2

(* ---------------- the employee client: loadLeaderboard ---------------- *)
Periods == {"month", "year", "all"}

\* startDate: the first day of the current month, of the current year, or
\* the epoch
StartDate(period) ==
  IF period = "month" THEN now
  ELSE IF period = "year" THEN ExtractYear(now) * 12
  ELSE 0

\* the orders in which .order('points', { ascending: false }) can return
\* the profiles: rows with equal points come in any order
ProfileOrders(prof) ==
  {o \in [1..Cardinality(DOMAIN prof) -> DOMAIN prof] :
     /\ \A i \in DOMAIN o, j \in DOMAIN o : i # j => o[i] # o[j]
     /\ \A i \in DOMAIN o, j \in DOMAIN o : i < j => prof[o[i]] >= prof[o[j]]}

\* count of safety_reports with employee_id = id and created_at >= startDate
ReportCountSince(reps, id, startDate) ==
  Cardinality({r \in DOMAIN reps :
                 reps[r].employee_id = id /\ reps[r].created_at >= startDate})

\* the comparator of leaderboardData.sort puts a before b
SortsBefore(a, b) ==
  \/ a.report_count > b.report_count
  \/ (a.report_count = b.report_count /\ a.points > b.points)

\* Array.prototype.sort is stable: an entry goes before the first entry the
\* comparator puts it before, and after its equals
RECURSIVE InsertEntry(_, _)
InsertEntry(x, sorted) ==
  IF sorted = << >> THEN <<x>>
  ELSE IF SortsBefore(x, Head(sorted)) THEN <<x>> \o sorted
  ELSE <<Head(sorted)>> \o InsertEntry(x, Tail(sorted))

RECURSIVE StableSort(_, _)
StableSort(entries, sorted) ==
  IF entries = << >> THEN sorted
  ELSE StableSort(Tail(entries), InsertEntry(Head(entries), sorted))

loadLeaderboard(prof, reps, order, period) ==
  LET leaderboardData ==
        [i \in DOMAIN order |->
           [id |-> order[i], points |-> prof[order[i]],
            report_count |-> ReportCountSince(reps, order[i], StartDate(period))]]
  IN StableSort(leaderboardData, << >>)

LeaderboardLoaded ==
  \E period \in Periods, order \in ProfileOrders(profiles) :
     /\ board' = loadLeaderboard(profiles, reports, order, period)
     /\ UNCHANGED <<now, nextId, reports, resolvers, ledger, steps, rpc, procs,
                    profiles, rebuildVars, syncVars>>

NextBoard ==
  \/ ReportFiled
  \/ StatusSaved
  \/ ReportDeleted
  \/ Tick
  \/ LeaderboardLoaded

SpecBoard == Init /\ [][NextBoard]_vars

(* C17: the ranking shown is ordered by points descending, then by
   report_count descending: an entry never stands before an entry with more
   points, nor before an entry with the same points and more reports (the
   order of entries equal in both is left open here). *)
C17_RankingOrder ==
  \A i \in 1..(Len(board) - 1) :
     LET a == board[i]
         b == board[i + 1]
     IN \/ a.points > b.points
        \/ (a.points = b.points /\ a.report_count >= b.report_count)

(* ---------------- report-created events that carry their own id ---------------- *)
\* variant: the id of a report is not checked for uniqueness
PrimaryKeyViolated_Never(reps, id) == FALSE

\* id uuid PRIMARY KEY: a second row with the id of an existing row is refused
PrimaryKeyViolated(reps, id) == id \in DOMAIN reps

\* INSERT INTO safety_reports (id, employee_id, points_awarded) VALUES (...):
\* the row is checked and inserted, then the AFTER INSERT trigger runs; a
\* statement that raises changes nothing
InsertReportResult(L, reps, id, new_row) ==
  IF PrimaryKeyViolated(reps, id)
  THEN [ok |-> FALSE, reports |-> reps, ledger |-> L]
  ELSE LET r == ApplyCalls(L, ReportInsertCalls(new_row))
       IN IF r.ok
          THEN [ok |-> TRUE, reports |-> reps @@ (id :> new_row), ledger |-> r.ledger]
          ELSE [ok |-> FALSE, reports |-> reps, ledger |-> L]

\* a producer delivers the creation of report id, once or again
ReportDelivered ==
  \E id \in ReportIds, e \in Employees, p \in Points :
     /\ steps < MaxCalls
     /\ steps' = steps + 1
     /\ LET r == InsertReportResult(ledger, reports, id, ReportRow(e, now, p, NULL, "pending"))
        IN /\ reports' = r.reports
           /\ ledger' = r.ledger
     /\ UNCHANGED <<now, nextId, resolvers, rpc, procs, uiVars, rebuildVars, syncVars>>

NextDelivery ==
  \/ ReportDelivered
  \/ Tick

SpecDelivery == Init /\ [][NextDelivery]_vars

(* C18: a report-created event delivered again with the id of a report that
   exists changes no ledger entry; every entry counts each existing report
   once, with its points once. *)
C18_DuplicateDelivery ==
  [][(steps' = steps + 1 /\ DOMAIN reports' = DOMAIN reports) =>
        /\ ledger' = ledger
        /\ \A k \in AllKeys :
              /\ Counters(ledger', k)[3] = Cardinality(ReportsOf(k))
              /\ Counters(ledger', k)[1] =
                    SumOver([id \in ReportsOf(k) |-> reports[id].points_awarded], ReportsOf(k))]_vars

\* two deliveries, one report: the second was a duplicate, and the author's
\* entry holds the report once
C18_Witness ==
  /\ steps = 2
  /\ \E id \in ReportIds :
        /\ DOMAIN reports = {id}
        /\ reports[id].points_awarded > 0
        /\ Counters(ledger, KeyOf(reports[id].employee_id, reports[id].created_at))
              = <<reports[id].points_awarded, 0, 1, 0>>

(* ---------------- the backfill block next to live statements ---------------- *)
\* The block runs in one transaction.  TRUNCATE takes an ACCESS EXCLUSIVE lock
\* on monthly_employee_points and keeps it until the transaction ends: it
\* waits for every transaction that has touched the table, and every later
\* reader or writer of the table waits for the block.  A live statement
\* changes its row of safety_reports, its trigger writes the ledger, and the
\* row change is visible to others when the statement's transaction commits.

\* variant: the rows are removed without the exclusive lock
TruncateBlocks_Never(pc) == FALSE

\* the lock of TRUNCATE is held from the TRUNCATE to the end of the block
TruncateBlocks(pc) == pc # "idle"

\* variant: the old rows stay
Truncate_Skipped(L) == L

\* TRUNCATE monthly_employee_points
Truncate(L) == EmptyFcn

\* what a reader of the ledger gets: the committed rows
VisibleLedger == IF live.pc = "written" THEN live.before ELSE ledger

\* the reader adds up the points and the report counts it finds
Digest(L) == <<Total(L, 1) + Total(L, 2), Total(L, 3)>>

BackfillTruncate ==
  /\ backfill.pc = "idle"
  /\ live.pc # "written"
  /\ backfill' = [backfill EXCEPT !.pc = "cleared", !.saved = ledger, !.last = "none"]
  /\ ledger' = Truncate(ledger)
  /\ UNCHANGED <<now, nextId, reports, resolvers, steps, rpc, procs, uiVars, live, seen, syncVars>>

\* FOR report_record IN SELECT * FROM safety_reports ORDER BY created_at
BackfillSelect ==
  /\ backfill.pc = "cleared"
  /\ backfill' = [backfill EXCEPT !.pc = "looping", !.snap = reports,
                                  !.rows = ReportsByCreatedAt(reports, DOMAIN reports)]
  /\ UNCHANGED <<now, nextId, reports, resolvers, ledger, steps, rpc, procs, uiVars, live, seen, syncVars>>

\* the end of the block, by an error or by the last row: the transaction is
\* rolled back or committed, and the lock is released
BackfillEnded(outcome) ==
  [IdleBackfill EXCEPT
     !.last = outcome,
     !.built = IF outcome = "committed" THEN [valid |-> TRUE, reports |-> backfill.snap]
               ELSE backfill.built,
     !.runs = IF outcome # "committed" THEN backfill.runs
              ELSE IF backfill.built.valid /\ backfill.built.reports = backfill.snap
                   THEN 2 ELSE 1]

\* one pass of the loop.  The body has no EXCEPTION clause: when a PERFORM
\* raises, for the values of the row or for a reason of the server (integer
\* out of range, statement timeout), the error leaves the loop and the
\* block, and the transaction is rolled back.
BackfillRow ==
  /\ backfill.pc = "looping"
  /\ backfill.rows # << >>
  /\ \E raised \in BOOLEAN :
       LET r == ApplyCalls(ledger, BackfillRowCalls(Head(backfill.rows)))
       IN IF r.ok /\ ~raised
          THEN /\ ledger' = r.ledger
               /\ backfill' = [backfill EXCEPT !.rows = Tail(@)]
          ELSE /\ ledger' = backfill.saved
               /\ backfill' = BackfillEnded("failed")
  /\ UNCHANGED <<now, nextId, reports, resolvers, steps, rpc, procs, uiVars, live, seen, syncVars>>

BackfillCommit ==
  /\ backfill.pc = "looping"
  /\ backfill.rows = << >>
  /\ backfill' = BackfillEnded("committed")
  /\ UNCHANGED <<now, nextId, reports, resolvers, ledger, steps, rpc, procs, uiVars, live, seen, syncVars>>

\* the session of the block is cancelled or its connection is lost
BackfillAbort ==
  /\ backfill.pc # "idle"
  /\ ledger' = backfill.saved
  /\ backfill' = BackfillEnded("aborted")
  /\ UNCHANGED <<now, nextId, reports, resolvers, steps, rpc, procs, uiVars, live, seen, syncVars>>

\* a live statement: the row change and the PERFORMs of its trigger
LiveWrite(after, calls) ==
  /\ live.pc = "idle"
  /\ steps < MaxLive
  /\ steps' = steps + 1
  /\ ~TruncateBlocks(backfill.pc)
  /\ LET r == ApplyCalls(ledger, calls)
     IN /\ r.ok
        /\ ledger' = r.ledger
  /\ live' = [pc |-> "written", reports |-> after, before |-> ledger]
  /\ backfill' = [backfill EXCEPT !.built = IdleBackfill.built, !.runs = 0]
  /\ UNCHANGED <<now, reports, resolvers, rpc, procs, uiVars, seen, syncVars>>

LiveInsert ==
  \E e \in Employees, p \in Points :
     /\ nextId < MaxOpen
     /\ nextId' = nextId + 1
     /\ LET new_row == ReportRow(e, now, p, NULL, "pending")
        IN LiveWrite(reports @@ ((nextId + 1) :> new_row), ReportInsertCalls(new_row))

LiveEdit ==
  \E id \in DOMAIN reports, p \in Points, res \in Employees \cup {NULL} :
     /\ p # reports[id].points_awarded \/ res # reports[id].resolved_by_id
     /\ nextId' = nextId
     /\ LET new_row == [reports[id] EXCEPT !.points_awarded = p, !.resolved_by_id = res]
        IN LiveWrite([reports EXCEPT ![id] = new_row],
                     ReportUpdateCalls(reports[id], new_row))

LiveDelete ==
  \E id \in DOMAIN reports :
     /\ nextId' = nextId
     /\ LiveWrite(Remove(reports, {id}), ReportDeleteCalls(reports[id]))

LiveCommit ==
  /\ live.pc = "written"
  /\ reports' = live.reports
  /\ live' = IdleLive
  /\ UNCHANGED <<now, nextId, resolvers, ledger, steps, rpc, procs, uiVars, backfill, seen, syncVars>>

\* SELECT ... FROM monthly_employee_points by a client
ReadLedger ==
  /\ ~TruncateBlocks(backfill.pc)
  /\ seen' = Digest(VisibleLedger)
  /\ UNCHANGED <<now, nextId, reports, resolvers, ledger, steps, rpc, procs, uiVars,
                 backfill, live, syncVars>>

NextBackfill ==
  \/ BackfillTruncate
  \/ BackfillSelect
  \/ BackfillRow
  \/ BackfillCommit
  \/ BackfillAbort
  \/ LiveInsert
  \/ LiveEdit
  \/ LiveDelete
  \/ LiveCommit
  \/ ReadLedger
  \/ Tick

SpecBackfill == Init /\ [][NextBackfill]_vars

\* every key of L has the counters that the rebuild of the rows reps gives
RebuiltFrom(L, reps) ==
  \A k \in AllKeys \cup DOMAIN L :
     Counters(L, k) = Counters(BackfillResult(reps).ledger, k)

(* C19: a run of the backfill block that commits leaves the ledger that one
   run over the selected report rows gives, whatever the ledger was before;
   a run that directly follows a committed run over the same rows leaves the
   ledger exactly as it found it; and a run that is aborted leaves the ledger
   exactly as it found it, so that the next run starts from the same state. *)
C19_BackfillIdempotent ==
  [][ /\ (backfill.pc # "idle" /\ backfill'.pc = "idle" /\ backfill'.last = "committed")
         => /\ ledger' = BackfillResult(backfill.snap).ledger
            /\ (backfill.built.valid /\ backfill.built.reports = backfill.snap)
                  => ledger' = backfill.saved
      /\ (backfill.pc # "idle" /\ backfill'.pc = "idle"
            /\ backfill'.last \in {"aborted", "failed"})
         => ledger' = backfill.saved ]_vars

\* the block has committed twice in a row over the same rows, one of them
\* with points and a resolver, and the ledger it found had entries
C19_Witness ==
  /\ backfill.pc = "idle"
  /\ backfill.last = "committed"
  /\ backfill.runs = 2
  /\ ledger # EmptyFcn
  /\ \E id \in DOMAIN reports :
        reports[id].points_awarded > 0 /\ reports[id].resolved_by_id # NULL

(* C20: a read of the ledger never returns a cleared or partly rebuilt table:
   what it returns is the ledger as it was committed before the running
   block, or the complete rebuild of the committed reports; between the
   TRUNCATE and the end of the block no live statement writes or commits; and
   whenever neither the block nor a live statement is in progress, every key
   has the counters that the committed reports give, so that no delta of a
   live statement was lost or counted twice by a rebuild. *)
C20_BackfillIsolation ==
  [][ /\ seen' # seen
         => seen' \in { Digest(IF backfill.pc = "idle" THEN VisibleLedger ELSE backfill.saved),
                        Digest(BackfillResult(reports).ledger) }
      /\ (backfill.pc # "idle" /\ backfill'.pc # "idle")
         => (live' = live /\ reports' = reports)
      /\ (backfill'.pc = "idle" /\ live'.pc = "idle")
         => RebuiltFrom(ledger', reports') ]_vars

\* the block has cleared the ledger that a reader has read before, with the
\* points of a committed live statement in it, and no reader has got the
\* cleared table
C20_Witness ==
  /\ backfill.pc = "cleared"
  /\ ledger = EmptyFcn
  /\ backfill.saved # EmptyFcn
  /\ live.pc = "idle"
  /\ seen = Digest(backfill.saved)
  /\ seen[1] > 0
  /\ \E id \in DOMAIN reports : reports[id].resolved_by_id # NULL

(* ---------------- deltas below zero ---------------- *)
\* the counters of key k after the calls, each one floored at zero
RECURSIVE CountersAfter(_, _, _)
CountersAfter(c, calls, k) ==
  IF calls = << >> THEN c
  ELSE LET h == Head(calls)
       IN CountersAfter(IF <<h.e, h.y, h.m>> = k
                        THEN Adjusted(c, <<h.d1, h.d2, h.d3, h.d4>>) ELSE c,
                        Tail(calls), k)

\* one of the calls brings a counter of its key below zero
RECURSIVE Underflows(_, _)
Underflows(L, calls) ==
  /\ calls # << >>
  /\ LET h == Head(calls)
         c == Counters(L, <<h.e, h.y, h.m>>)
     IN \/ c[1] + h.d1 < 0 \/ c[2] + h.d2 < 0 \/ c[3] + h.d3 < 0 \/ c[4] + h.d4 < 0
        \/ Underflows(ApplyCalls(L, <<h>>).ledger, Tail(calls))

\* every call names an employee, a year and a month
KeysGiven(calls) ==
  \A i \in 1..Len(calls) : calls[i].e # NULL /\ calls[i].y # NULL /\ calls[i].m # NULL

\* the statement with these calls completes and leaves every key with the
\* floored counters
CompletesFloored(L, calls) ==
  LET r == ApplyCalls(L, calls)
  IN /\ r.ok
     /\ \A k \in AllKeys \cup DOMAIN L \cup DOMAIN r.ledger :
           /\ Counters(r.ledger, k) = CountersAfter(Counters(L, k), calls, k)
           /\ \A i \in 1..4 : Counters(r.ledger, k)[i] >= 0

\* the calls of DELETE FROM safety_reports WHERE id = id
DeleteCallsOf(id) ==
  ReportDeleteCalls(reports[id])
    \o CascadeCalls(Remove(reports, {id}), resolvers,
                    KeysInOrder({k \in DOMAIN resolvers : k[1] = id}))

(* C21: a deletion of a report, a removal of a resolver assignment or a
   change of the resolved_by_id column whose deltas would bring a counter
   below zero is not refused for that: as long as each of its calls names a
   key, the statement completes, and every counter it touches is the old
   value plus the delta, floored at zero. *)
C21_UnderflowNeverBlocks ==
  /\ \A id \in DOMAIN reports :
        (Underflows(ledger, DeleteCallsOf(id)) /\ KeysGiven(DeleteCallsOf(id)))
          => /\ CompletesFloored(ledger, DeleteCallsOf(id))
             /\ DeleteReportResult(ledger, reports, resolvers, id).ok
  /\ \A a \in DOMAIN resolvers :
        LET calls == ResolverDeleteCalls(reports, a[1], a[2], resolvers[a])
        IN (Underflows(ledger, calls) /\ KeysGiven(calls)) => CompletesFloored(ledger, calls)
  /\ \A id \in DOMAIN reports, res \in Employees \cup {NULL} :
        LET calls == ReportUpdateCalls(reports[id], [reports[id] EXCEPT !.resolved_by_id = res])
        IN (Underflows(ledger, calls) /\ KeysGiven(calls)) => CompletesFloored(ledger, calls)

\* the only report was deleted after its author had changed: the deletion
\* took one report from an entry that counted none and made it with zeros,
\* and the entry of the first author still counts the report
C21_Witness ==
  /\ reports = EmptyFcn
  /\ nextId > 0
  /\ \E k1 \in DOMAIN ledger, k2 \in DOMAIN ledger :
        /\ k1 # k2
        /\ Counters(ledger, k1) = <<0, 0, 0, 0>>
        /\ Counters(ledger, k2)[3] = 1

(* ---------------- lifecycle of an entry ---------------- *)
\* the deltas one statement can apply to one key: points and bonus of one
\* report, one report and one assignment
StatementDeltas == [points |-> -2..2, counts |-> -1..1]

\* the counter went from before to after by one of the deltas, floored at zero
AdjustedBy(before, after, deltas) == \E d \in deltas : after = Max0(before + d)

(* C22: under report creation, report deletion, resolver addition and
   removal and the updates of a report, every entry that exists stays in the
   ledger, also when its four counters are back at zero; and the counters of
   every key after a statement are its counters before (all zero for a key
   without an entry) plus one delta, floored at zero, so that an entry starts
   from zeros and changes by adjustments only. *)
C22_EntryLifecycle ==
  [][ /\ DOMAIN ledger \subseteq DOMAIN ledger'
      /\ \A k \in DOMAIN ledger' :
            LET before == Counters(ledger, k)
                after == Counters(ledger', k)
            IN /\ AdjustedBy(before[1], after[1], StatementDeltas.points)
               /\ AdjustedBy(before[2], after[2], StatementDeltas.points)
               /\ AdjustedBy(before[3], after[3], StatementDeltas.counts)
               /\ AdjustedBy(before[4], after[4], StatementDeltas.counts) ]_vars

\* the only report was deleted and has no assignment left: the one entry
\* that was made for it is still there, with zeros
C22_Witness ==
  /\ reports = EmptyFcn
  /\ resolvers = EmptyFcn
  /\ nextId > 0
  /\ Cardinality(DOMAIN ledger) = 1
  /\ \A k \in DOMAIN ledger : Counters(ledger, k) = <<0, 0, 0, 0>>

(* ---------------- the cascade of a report deletion ---------------- *)
(* C23: the deletion of a report that has resolver assignments completes,
   and it takes each assignment's stored bonus and one resolved report from
   the resolver's entry for the month in which the report was created. *)
C23_CascadeOnDelete ==
  \A id \in DOMAIN reports :
     ResolversOf(resolvers, id) # {} =>
        LET r == DeleteReportResult(ledger, reports, resolvers, id)
        IN /\ r.ok
           /\ \A e \in ResolversOf(resolvers, id) :
                 LET k == KeyOf(e, reports[id].created_at)
                 IN /\ Counters(r.ledger, k)[2] =
                         Max0(Counters(ledger, k)[2] - resolvers[<<id, e>>])
                    /\ Counters(r.ledger, k)[4] = Max0(Counters(ledger, k)[4] - 1)

(* ---------------- the order of the requests of a replacement ---------------- *)
\* the tables when the dialog is saved with status closed: before the first
\* request, after the loop over resolversToAdd, after the loop over
\* resolversToRemove
ResolverLoops(db, id, selectedResolvers) ==
  LET reportDetails == db.reports[id]
      existingResolverIds == {k[2] : k \in {kk \in DOMAIN db.resolvers : kk[1] = id}}
      report_resolvers == [r \in existingResolverIds |-> db.resolvers[<<id, r>>]]
      resolversToAdd == selectedResolvers \ existingResolverIds
      resolversToRemove == existingResolverIds \ selectedResolvers
      added == AddResolvers(db, id, reportDetails.employee_id, InOrder(resolversToAdd))
  IN << db, added,
        RemoveResolvers(added, id, report_resolvers, InOrder(resolversToRemove)) >>

(* C24: when the dialog replaces the only resolver A of a report by B, the
   first delta that reaches the ledger is the removal of A (A's entry loses
   the bonus and the resolved report while B's entry is still as it was), and
   the addition of B follows as a delta of its own. *)
C24_ReplacementOrder ==
  \A id \in DOMAIN reports, A \in Employees, B \in Employees :
     (ResolversOf(resolvers, id) = {A} /\ A # B) =>
        LET loops == ResolverLoops(Db(reports, resolvers, ledger, profiles), id, {B})
            kA == KeyOf(A, reports[id].created_at)
            kB == KeyOf(B, reports[id].created_at)
        IN /\ ResolversOf(loops[2].resolvers, id) = {}
           /\ Counters(loops[2].ledger, kA)[4] = Counters(ledger, kA)[4] - 1
           /\ Counters(loops[2].ledger, kB) = Counters(ledger, kB)
           /\ ResolversOf(loops[3].resolvers, id) = {B}
           /\ Counters(loops[3].ledger, kB)[4] = Counters(ledger, kB)[4] + 1

(* ---------------- a row of the rebuild that fails ---------------- *)
(* C25: when the processing of one report row fails during the rebuild, the
   block goes on with the next row: the failed row is left out, what the
   rows before it have written stays, and the block is still running. *)
C25_BackfillRowErrors ==
  [][ (backfill.pc = "looping" /\ backfill'.last = "failed")
        => /\ backfill'.pc = "looping"
           /\ backfill'.rows = Tail(backfill.rows)
           /\ ledger' = ledger ]_vars

(* ---------------- events without an employee ---------------- *)
\* employee_id uuid NOT NULL of safety_reports: checked when the row is
\* inserted, before the AFTER INSERT trigger runs
AuthorMissing(new_row) == new_row.employee_id = NULL

\* a report-created event, with or without an author
ReportEvent ==
  \E e \in Employees \cup {NULL}, p \in Points :
     /\ steps < MaxCalls
     /\ steps' = steps + 1
     /\ nextId < NumReports
     /\ LET new_row == ReportRow(e, now, p, NULL, "pending")
            r == IF AuthorMissing(new_row)
                 THEN [ok |-> FALSE, reports |-> reports, ledger |-> ledger]
                 ELSE InsertReportResult(ledger, reports, nextId + 1, new_row)
        IN /\ reports' = r.reports
           /\ ledger' = r.ledger
           /\ nextId' = IF r.ok THEN nextId + 1 ELSE nextId
           /\ rpc' = [NoCall EXCEPT !.e = e, !.raised = ~r.ok]
     /\ UNCHANGED <<now, resolvers, procs, uiVars, rebuildVars, syncVars>>

\* a resolver-added event, with or without a resolver: handle_resolver_insert
\* runs BEFORE INSERT and passes NEW.resolver_id to upsert_monthly_points
ResolverEvent ==
  \E id \in DOMAIN reports, e \in Employees \cup {NULL} :
     /\ steps < MaxCalls
     /\ steps' = steps + 1
     /\ <<id, e>> \notin DOMAIN resolvers
     /\ LET db == Db(reports, resolvers, ledger, profiles)
            after == InsertResolverStmt(db, id, e)
        IN /\ resolvers' = after.resolvers
           /\ ledger' = after.ledger
           /\ rpc' = [NoCall EXCEPT !.e = e, !.raised = (after = db)]
     /\ UNCHANGED <<now, nextId, reports, procs, uiVars, rebuildVars, syncVars>>

\* a delta sent to upsert_monthly_points by a caller of its own
EventCall ==
  \E e \in Employees \cup {NULL}, p \in Points :
     UpsertRpc(e, ExtractYear(now), ExtractMonth(now), p, 0, 1, 0)

NextMalformed ==
  \/ ReportEvent
  \/ ResolverEvent
  \/ EventCall
  \/ Tick

SpecMalformed == Init /\ [][NextMalformed]_vars

(* C26: a report-created event, a resolver-added event or a direct delta
   that names no employee is refused with an error, and the ledger, the
   reports and the assignments are the same after it as before. *)
C26_MalformedEvent ==
  [][ (steps' = steps + 1 /\ rpc'.e = NULL)
        => /\ rpc'.raised
           /\ ledger' = ledger
           /\ reports' = reports
           /\ resolvers' = resolvers ]_vars

\* a report with points was created and counted, and the event after it had
\* no employee and was refused
C26_Witness ==
  /\ steps = 2
  /\ rpc.e = NULL
  /\ rpc.raised
  /\ \E k \in DOMAIN ledger : Counters(ledger, k)[1] > 0 /\ Counters(ledger, k)[3] = 1

(* ---------------- the employee client: handleSubmit ---------------- *)
\* points_awarded: images.length > 0 ? 15 : 10
SubmitPoints(hasImages) == IF hasImages THEN 15 ELSE 10

\* the employee submits a report while online: the row is inserted with the
\* points of the client, then increment adds the same points to the profile;
\* an error of the insert is thrown and ends the handler
ReportSubmitted ==
  \E e \in Employees, hasImages \in BOOLEAN :
     /\ nextId < MaxOpen
     /\ LET new_row == ReportRow(e, now, SubmitPoints(hasImages), NULL, "pending")
            r == InsertReportResult(ledger, reports, nextId + 1, new_row)
        IN /\ r.ok
           /\ reports' = r.reports
           /\ ledger' = r.ledger
           /\ nextId' = nextId + 1
           /\ profiles' = increment(profiles, e, SubmitPoints(hasImages))
     /\ UNCHANGED <<now, resolvers, steps, rpc, procs, board, rebuildVars, syncVars>>

NextClient ==
  \/ ReportSubmitted
  \/ StatusSaved
  \/ ReportDeleted
  \/ Tick

SpecClient == Init /\ [][NextClient]_vars

(* C27: the points_awarded of every report are between 0 and 3, from its
   creation on and after every save of the admin dialog. *)
C27_PointsRange ==
  \A id \in DOMAIN reports : reports[id].points_awarded \in 0..3

\* the points of an employee summed over the employee's ledger entries
LedgerPointsOf(e) ==
  LET keys == {k \in DOMAIN ledger : k[1] = e}
  IN SumOver([k \in keys |-> ledger[k].total_points], keys)

(* C28: after every request of the clients (report submission, save of the
   admin dialog, report deletion), the points of each profile are the sum of
   total_points over the ledger entries of that employee. *)
C28_LifetimePoints ==
  \A e \in Employees : profiles[e] = LedgerPointsOf(e)

(* ---------------- the offline queue: offlineSync ---------------- *)
\* pending.filter((r) => r.id !== id)
RECURSIVE WithoutId(_, _)
WithoutId(queue, id) ==
  IF queue = << >> THEN << >>
  ELSE IF Head(queue).id = id THEN WithoutId(Tail(queue), id)
       ELSE <<Head(queue)>> \o WithoutId(Tail(queue), id)

\* removePendingReport: the stored queue is read again, filtered and written
removePendingReport(p, id) == [p EXCEPT !.queue = WithoutId(@, id)]

\* handleSubmit while offline: the report gets a fresh id of the client and is
\* pushed to the stored queue
savePendingReport ==
  \E images \in BOOLEAN :
     /\ pending.saved < MaxPending
     /\ pending' = [queue |-> Append(pending.queue, [id |-> pending.saved + 1, images |-> images]),
                    saved |-> pending.saved + 1]
     /\ UNCHANGED <<now, nextId, reports, resolvers, ledger, steps, rpc, procs,
                    uiVars, rebuildVars, syncs, content>>

\* a call of syncPendingReports starts: the stored queue is read once
SyncStart ==
  \E r \in SyncRuns, userId \in Employees :
     /\ syncs[r].pc = "idle"
     /\ steps < MaxSyncs
     /\ steps' = steps + 1
     /\ syncs' = [syncs EXCEPT ![r] = [IdleSync EXCEPT !.pc = "looping", !.userId = userId,
                                                       !.todo = pending.queue]]
     /\ UNCHANGED <<now, nextId, reports, resolvers, ledger, rpc, procs,
                    uiVars, rebuildVars, pending, content>>

\* the insert of the report at the head of the run's list: on an error the
\* report is counted as failed and the loop continues; otherwise the row
\* exists (points_awarded and created_at from their defaults) and the run
\* waits for the answer
SyncInsert ==
  \E r \in SyncRuns, error \in BOOLEAN :
     /\ syncs[r].pc = "looping"
     /\ syncs[r].todo # << >>
     /\ IF error
        THEN /\ syncs' = [syncs EXCEPT ![r].failed = @ + 1, ![r].todo = Tail(@)]
             /\ UNCHANGED <<nextId, reports, ledger, content>>
        ELSE /\ nextId < NumReports
             /\ LET new_row == ReportRow(syncs[r].userId, now, 0, NULL, "pending")
                    res == InsertReportResult(ledger, reports, nextId + 1, new_row)
                IN /\ res.ok
                   /\ reports' = res.reports
                   /\ ledger' = res.ledger
             /\ nextId' = nextId + 1
             /\ content' = content @@ ((nextId + 1) :> Head(syncs[r].todo).id)
             /\ syncs' = [syncs EXCEPT ![r].pc = "inserted", ![r].newReport = nextId + 1]
     /\ UNCHANGED <<now, resolvers, steps, rpc, procs, uiVars, rebuildVars, pending>>

\* the rest of the iteration after the insert: the images of the report are
\* fetched and uploaded, then the report is removed from the stored queue
\* and counted as a success; an exception of the image handling is caught
\* and counts the report as failed
SyncImages ==
  \E r \in SyncRuns, thrown \in BOOLEAN :
     /\ syncs[r].pc = "inserted"
     /\ LET report == Head(syncs[r].todo)
        IN IF report.images /\ thrown
           THEN /\ syncs' = [syncs EXCEPT ![r].pc = "looping", ![r].failed = @ + 1,
                                          ![r].todo = Tail(@)]
                /\ UNCHANGED pending
           ELSE /\ pending' = removePendingReport(pending, report.id)
                /\ syncs' = [syncs EXCEPT ![r].pc = "looping", ![r].success = @ + 1,
                                          ![r].todo = Tail(@)]
     /\ UNCHANGED <<now, nextId, reports, resolvers, ledger, steps, rpc, procs,
                    uiVars, rebuildVars, content>>

\* the loop is over: the call returns its two counters
SyncReturn ==
  \E r \in SyncRuns :
     /\ syncs[r].pc = "looping"
     /\ syncs[r].todo = << >>
     /\ syncs' = [syncs EXCEPT ![r].pc = "idle"]
     /\ UNCHANGED <<now, nextId, reports, resolvers, ledger, steps, rpc, procs,
                    uiVars, rebuildVars, pending, content>>

NextSync ==
  \/ savePendingReport
  \/ SyncStart
  \/ SyncInsert
  \/ SyncImages
  \/ SyncReturn
  \/ Tick

SpecSync == Init /\ [][NextSync]_vars

\* the rows of safety_reports written from the pending report p
RowsFrom(c, p) == {id \in DOMAIN c : c[id] = p}

\* the ids of the reports in a stored queue
QueuedIds(queue) == {queue[i].id : i \in DOMAIN queue}

(* C29: over the runs of syncPendingReports every pending report is inserted
   into safety_reports at most once; when an iteration ends after a successful
   insert the report is no longer in the pending queue; and a report that a
   run counts as failed has no row in safety_reports. *)
C29_SyncAtMostOnce ==
  [][/\ \A p \in 1..MaxPending : Cardinality(RowsFrom(content', p)) <= 1
     /\ \A r \in SyncRuns :
          /\ (syncs[r].pc = "inserted" /\ syncs'[r].pc # "inserted")
                => Head(syncs[r].todo).id \notin QueuedIds(pending'.queue)
          /\ syncs'[r].failed > syncs[r].failed
                => RowsFrom(content', Head(syncs[r].todo).id) = {}]_vars

(* ---------------- updates of a report that the ledger ignores ---------------- *)
\* UPDATE safety_reports SET status = st WHERE id = id
StatusChanged ==
  \E id \in ReportIds, st \in Statuses :
     /\ id \in DOMAIN reports
     /\ st # reports[id].status
     /\ steps < MaxUpdates
     /\ UpdateReport(id, [reports[id] EXCEPT !.status = st])
     /\ steps' = steps + 1

NextFrame ==
  \/ ReportFiled
  \/ ReportPointsEdited
  \/ StatusChanged
  \/ AuthorChanged
  \/ LegacyResolverChanged

SpecFrame == Init /\ [][NextFrame]_vars

(* C30: an UPDATE of a report that changes neither points_awarded nor
   resolved_by_id (a change of the status, a change of the author alone)
   applies no delta: every ledger entry is the same after it as before. *)
C30_UnrelatedUpdates ==
  [][\A id \in DOMAIN reports :
        (/\ DOMAIN reports' = DOMAIN reports
         /\ reports'[id] # reports[id]
         /\ reports'[id].points_awarded = reports[id].points_awarded
         /\ reports'[id].resolved_by_id = reports[id].resolved_by_id)
        => ledger' = ledger]_vars

\* a closed report with points whose author was changed: the new author has
\* no ledger entry, the points stay where they were credited
C30_Witness ==
  \E id \in DOMAIN reports :
     /\ steps > 0
     /\ reports[id].status = "closed"
     /\ reports[id].points_awarded > 0
     /\ \A k \in DOMAIN ledger : k[1] # reports[id].employee_id
     /\ \E k \in DOMAIN ledger : ledger[k].reporter_points = reports[id].points_awarded

====
